---- MODULE Spec2Model ----
(***************************************************************************)
(* A model of patina: the freshness classifier (freshness.go), the         *)
(* repository cache (cache.go) and the scanner (patina.go).                *)
(*                                                                         *)
(* Time: a time.Time is an integer number of hours since an arbitrary      *)
(* epoch and a time.Duration an integer number of hours, so time.Hour is   *)
(* one unit ("one unit" of the boundary statements is one hour here, one   *)
(* nanosecond in the program).                                             *)
(***************************************************************************)
EXTENDS Integers, Sequences, FiniteSets, TLC

VARIABLES
    clock,        \* what time.Now() returns
    advances,     \* how often the clock has moved (a bound of the model)
    files,        \* the file system under the cache directory: path -> file
    last,         \* the last operation on the cache and what it returned
    lastUpdated,  \* CalculateFreshness: its first argument
    now,          \* CalculateFreshness: its second argument
    freshness,    \* CalculateFreshness: its result ("" before the call)
    procs,        \* two concurrent scans: where each process stands
    bytes,        \* two concurrent scans: the content of the cache file
    args,         \* a call of a function of patina.go: its arguments
    ret           \* a call of a function of patina.go: its result

vars == <<clock, advances, files, last, lastUpdated, now, freshness,
          procs, bytes, args, ret>>

cacheVars == <<clock, advances, files, last>>
freshVars == <<lastUpdated, now, freshness>>
concVars == <<procs, bytes>>
callVars == <<args, ret>>

(***************************************************************************)
(* Bounds of the model.                                                    *)
(***************************************************************************)
MaxAdvances == 2   \* the clock moves at most this often in one behaviour
MaxSkew == 2       \* ages range from -MaxSkew to redThreshold + MaxSkew
MaxStamp == 1      \* the documents on disk are stamped 0..MaxStamp
MaxLen == 3        \* the repository lists handed to a function are this long
MaxYears == 2      \* Age is called on ages of up to MaxYears + 1 years

(***************************************************************************)
(* freshness.go                                                            *)
(***************************************************************************)
FreshnessGreen == "green"
FreshnessYellow == "yellow"
FreshnessRed == "red"

yellowThreshold == 2 * 30 * 24
redThreshold == 6 * 30 * 24

\* time.Time.Sub
Sub(t, u) == t - u

\* The elements of a sequence.
Range(q) == {q[i] : i \in 1..Len(q)}

\* A classifier that tests the thresholds in the other order.
CalculateFreshnessYellowFirst(lastUpdated_, now_) ==
    LET age == Sub(now_, lastUpdated_) IN
    IF age > redThreshold THEN FreshnessYellow
    ELSE IF age > yellowThreshold THEN FreshnessRed
    ELSE FreshnessGreen

\* A classifier whose comparisons are not strict.
CalculateFreshnessNonStrict(lastUpdated_, now_) ==
    LET age == Sub(now_, lastUpdated_) IN
    IF age >= redThreshold THEN FreshnessRed
    ELSE IF age >= yellowThreshold THEN FreshnessYellow
    ELSE FreshnessGreen

CalculateFreshness(lastUpdated_, now_) ==
    LET age == Sub(now_, lastUpdated_) IN
    IF age > redThreshold THEN FreshnessRed
    ELSE IF age > yellowThreshold THEN FreshnessYellow
    ELSE FreshnessGreen

\* A parser that takes every string for a freshness.
ParseFreshnessAcceptsAll(s) == [f |-> s, ok |-> TRUE]

\* ParseFreshness: the switch on the string, which compares it as it is.
ParseFreshness(s) ==
    IF s = "green" THEN [f |-> FreshnessGreen, ok |-> TRUE]
    ELSE IF s = "yellow" THEN [f |-> FreshnessYellow, ok |-> TRUE]
    ELSE IF s = "red" THEN [f |-> FreshnessRed, ok |-> TRUE]
    ELSE [f |-> "", ok |-> FALSE]

\* A String that capitalises the value.
StringCapitalised(f) ==
    IF f = FreshnessGreen THEN "Green"
    ELSE IF f = FreshnessYellow THEN "Yellow"
    ELSE IF f = FreshnessRed THEN "Red"
    ELSE f

\* Freshness.String: string(f), the text of the value itself.
String(f) == f

\* A pluralize that has no singular.
pluralizeAlways(n, unit) == ToString(n) \o " " \o unit \o "s"

\* pluralize: "1 unit" for one, "%d units" for every other count.
pluralize(n, unit) ==
    IF n = 1 THEN "1 " \o unit
    ELSE ToString(n) \o " " \o unit \o "s"

\* int(x / 24) for a whole number of hours x: the quotient, cut towards zero.
IntDiv(x, d) == IF x >= 0 THEN x \div d ELSE -((-x) \div d)

\* An Age that leaves out the months beyond whole years.
AgeWholeYears(lastUpdated_, now_) ==
    LET days == IntDiv(Sub(now_, lastUpdated_), 24)
        months == days \div 30
    IN  IF days < 1 THEN "today"
        ELSE IF days = 1 THEN "1 day ago"
        ELSE IF days < 30 THEN pluralize(days, "day") \o " ago"
        ELSE IF months < 12 THEN pluralize(months, "month") \o " ago"
        ELSE pluralize(months \div 12, "year") \o " ago"

\* Age: days := int(duration.Hours() / 24), months := days / 30,
\* years := months / 12, remainingMonths := months % 12.
Age(lastUpdated_, now_) ==
    LET days == IntDiv(Sub(now_, lastUpdated_), 24)
        months == days \div 30
        years == months \div 12
        remainingMonths == months % 12
    IN  IF days < 1 THEN "today"
        ELSE IF days = 1 THEN "1 day ago"
        ELSE IF days < 30 THEN pluralize(days, "day") \o " ago"
        ELSE IF months < 12 THEN pluralize(months, "month") \o " ago"
        ELSE IF remainingMonths = 0 THEN pluralize(years, "year") \o " ago"
        ELSE pluralize(years, "year") \o ", "
                \o pluralize(remainingMonths, "month") \o " ago"

(***************************************************************************)
(* cache.go                                                                *)
(***************************************************************************)
cacheValidity == 30 * 24

ErrCacheExpired == "cache expired"
ErrCacheNotFound == "cache not found"
nil == "nil"

\* An organization name is the sequence of its "/"-separated segments.
Orgs == {<<"a">>, <<"b">>}

\* Cache.baseDir, as path segments.
baseDir == <<"cache", "patina">>

\* filepath.Clean on segments: "." and "" are dropped, ".." removes the
\* segment before it.
RECURSIVE Clean(_, _)
Clean(done, rest) ==
    IF rest = <<>> THEN done
    ELSE LET s == Head(rest) IN
         IF s = "." \/ s = "" THEN Clean(done, Tail(rest))
         ELSE IF s = ".." /\ done # <<>> /\ done[Len(done)] # ".."
              THEN Clean(SubSeq(done, 1, Len(done) - 1), Tail(rest))
         ELSE Clean(Append(done, s), Tail(rest))

\* filepath.Join(c.baseDir, org+".json")
cacheFilePath(org) ==
    LET n == Len(org)
        named == IF n = 0 THEN <<".json">>
                 ELSE [org EXCEPT ![n] = org[n] \o ".json"]
    IN Clean(<<>>, baseDir \o named)

\* Organization names that hold a path separator and "..": "x/../a" and
\* "../evil".  Cache takes the name as it is given.
TraversalOrgs == {<<"x", "..", "a">>, <<"..", "evil">>}

OrgNames == Orgs \cup TraversalOrgs

Paths == {cacheFilePath(o) : o \in OrgNames}

\* A file: absent, or present and unreadable, or present with bytes that are
\* not a JSON document, or present with a JSON document.
NoFile == [kind |-> "absent", doc |-> <<>>]
Unreadable == [kind |-> "unreadable", doc |-> <<>>]
Garbage == [kind |-> "garbage", doc |-> <<>>]

\* The zero value of OrganizationCache.
ZeroCache == [Organization |-> <<>>, FetchedAt |-> 0, Repositories |-> <<>>]

\* A string that is not valid UTF-8 (Go strings are byte sequences), and
\* what encoding/json writes for it: every invalid byte becomes U+FFFD.
InvalidUTF8 == "repo\\xFF"
ToValidUTF8(s) == IF s = InvalidUTF8 THEN "repo\\uFFFD" ELSE s

\* json.MarshalIndent of an OrganizationCache: the struct tags name the
\* keys, the strings of a repository are coerced to valid UTF-8 (the
\* organization names of the model are valid), a time.Time is written as
\* its instant (RFC 3339 with nanoseconds).
Marshal(data) ==
    [kind |-> "json",
     doc |-> <<[organization |-> data.Organization,
                fetched_at |-> data.FetchedAt,
                repositories |->
                    [i \in 1..Len(data.Repositories) |->
                        [name |-> ToValidUTF8(data.Repositories[i].Name),
                         full_name |->
                            ToValidUTF8(data.Repositories[i].FullName),
                         last_updated |-> data.Repositories[i].LastUpdated,
                         html_url |->
                            ToValidUTF8(data.Repositories[i].HTMLURL)]]]>>]

\* os.ReadFile followed by json.Unmarshal into an OrganizationCache.
Unmarshal(f) ==
    IF f.kind = "unreadable" THEN [data |-> ZeroCache, err |-> "read error"]
    ELSE IF f.kind # "json" THEN [data |-> ZeroCache, err |-> "parse error"]
    ELSE LET d == f.doc[1] IN
         [data |-> [Organization |-> d.organization,
                    FetchedAt |-> d.fetched_at,
                    Repositories |->
                        [i \in 1..Len(d.repositories) |->
                            [Name |-> d.repositories[i].name,
                             FullName |-> d.repositories[i].full_name,
                             LastUpdated |-> d.repositories[i].last_updated,
                             HTMLURL |-> d.repositories[i].html_url]]],
          err |-> nil]

\* What the environment lets a Save do: succeed, fail before the file is
\* opened (MkdirAll or the open fails), or fail after os.WriteFile truncated it.
SaveOutcomes == {"ok", "fail_unchanged", "fail_truncated"}

\* A save that keeps the FetchedAt its caller set.
SaveTrustingCaller(fs, data, tnow, outcome) ==
    LET path == cacheFilePath(data.Organization)
    IN IF outcome = "ok"
       THEN [files |-> [fs EXCEPT ![path] = Marshal(data)], err |-> nil]
       ELSE IF outcome = "fail_truncated"
       THEN [files |-> [fs EXCEPT ![path] = Garbage], err |-> "write error"]
       ELSE [files |-> fs, err |-> "write error"]

\* A save that merges the new list into the one already stored.
SaveMerging(fs, data, tnow, outcome) ==
    LET path == cacheFilePath(data.Organization)
        old == IF fs[path].kind = "json"
               THEN Unmarshal(fs[path]).data.Repositories ELSE <<>>
        stamped == [data EXCEPT !.FetchedAt = tnow,
                                !.Repositories = data.Repositories \o old]
    IN IF outcome = "ok"
       THEN [files |-> [fs EXCEPT ![path] = Marshal(stamped)], err |-> nil]
       ELSE IF outcome = "fail_truncated"
       THEN [files |-> [fs EXCEPT ![path] = Garbage], err |-> "write error"]
       ELSE [files |-> fs, err |-> "write error"]

\* Cache.Save, as a function of the file system, time.Now() and the outcome
\* of the write.
Save(fs, data, tnow, outcome) ==
    LET stamped == [data EXCEPT !.FetchedAt = tnow]
        path == cacheFilePath(data.Organization)
    IN IF outcome = "ok"
       THEN [files |-> [fs EXCEPT ![path] = Marshal(stamped)], err |-> nil]
       ELSE IF outcome = "fail_truncated"
       THEN [files |-> [fs EXCEPT ![path] = Garbage], err |-> "write error"]
       ELSE [files |-> fs, err |-> "write error"]

\* A load that subtracts the wrong way round.
LoadWithTimeSwapped(fs, org, tnow) ==
    LET f == fs[cacheFilePath(org)] IN
    IF f.kind = "absent" THEN [data |-> ZeroCache, err |-> ErrCacheNotFound]
    ELSE LET u == Unmarshal(f) IN
         IF u.err # nil THEN u
         ELSE IF Sub(u.data.FetchedAt, tnow) > cacheValidity
              THEN [data |-> u.data, err |-> ErrCacheExpired]
         ELSE [data |-> u.data, err |-> nil]

\* A load whose expiry comparison is not strict.
LoadWithTimeNonStrict(fs, org, tnow) ==
    LET f == fs[cacheFilePath(org)] IN
    IF f.kind = "absent" THEN [data |-> ZeroCache, err |-> ErrCacheNotFound]
    ELSE LET u == Unmarshal(f) IN
         IF u.err # nil THEN u
         ELSE IF Sub(tnow, u.data.FetchedAt) >= cacheValidity
              THEN [data |-> u.data, err |-> ErrCacheExpired]
         ELSE [data |-> u.data, err |-> nil]

\* Cache.LoadWithTime, as a function of the file system.
LoadWithTime(fs, org, tnow) ==
    LET f == fs[cacheFilePath(org)] IN
    IF f.kind = "absent" THEN [data |-> ZeroCache, err |-> ErrCacheNotFound]
    ELSE LET u == Unmarshal(f) IN
         IF u.err # nil THEN u
         ELSE IF Sub(tnow, u.data.FetchedAt) > cacheValidity
              THEN [data |-> u.data, err |-> ErrCacheExpired]
         ELSE [data |-> u.data, err |-> nil]

\* Cache.Load: LoadWithTime at time.Now().
Load(fs, org, tnow) == LoadWithTime(fs, org, tnow)

\* Cache.IsValidWithTime
IsValidWithTime(fs, org, tnow) == LoadWithTime(fs, org, tnow).err = nil

\* Cache.IsValid: Load at time.Now() returned no error.
IsValid(fs, org, tnow) == Load(fs, org, tnow).err = nil

(***************************************************************************)
(* patina.go: the fetcher and the scanner                                  *)
(***************************************************************************)
\* Repository values a fetch may return.
Repo(name, pushed) ==
    [Name |-> name, FullName |-> "org/" \o name, LastUpdated |-> pushed,
     HTMLURL |-> "https://github.com/org/" \o name]

FetchLists == {<<Repo("repo1", 0)>>, <<Repo("repo2", 7), Repo("repo1", 0)>>}
FetchErrors == {"failed to fetch repositories"}

\* GitHubClient.FetchRepositories: what a call may return.
FetchReturns ==
    {[repos |-> l, err |-> nil] : l \in FetchLists}
        \cup {[repos |-> <<>>, err |-> e] : e \in FetchErrors}

\* A scanner that reads the cache whatever the options say.
ReadsCacheAlways(refresh) == TRUE

\* Scan, lines 220-222: the cache is read unless a refresh is requested.
ReadsCache(refresh) == ~refresh

\* A scanner that tests the load error the wrong way round.
CacheHitInverted(ld) == ld.err # nil

\* A scanner that also serves a snapshot whose load said Expired.
CacheHitOnExpired(ld) == ld.err = nil \/ ld.err = ErrCacheExpired

\* A scanner that never serves what it loaded.
CacheHitNever(ld) == FALSE

\* Scan, line 222: the loaded snapshot is served.
CacheHit(ld) == ld.err = nil

\* A cache hit reported as a fetch.
CachedResultAsFetched(org, cached) ==
    [Organization |-> org, Repositories |-> cached.Repositories,
     FetchedAt |-> cached.FetchedAt, FromCache |-> FALSE]

\* Scan, lines 223-228: the result of a cache hit.
CachedResult(org, cached) ==
    [Organization |-> org, Repositories |-> cached.Repositories,
     FetchedAt |-> cached.FetchedAt, FromCache |-> TRUE]

\* Scan, lines 239-243: the snapshot handed to Save.
cacheData(org, repos, tnow) ==
    [Organization |-> org, Repositories |-> repos, FetchedAt |-> tnow]

\* Scan, lines 249-254: the result of a fetch.
FetchedResult(org, repos, tnow) ==
    [Organization |-> org, Repositories |-> repos, FetchedAt |-> tnow,
     FromCache |-> FALSE]

\* A failed fetch whose error is wrapped.
FetchFailedWrapped(fs, fetchErr) ==
    [files |-> fs, result |-> <<>>,
     err |-> "failed to scan organization: " \o fetchErr]

\* Scan, lines 234-236: a failed fetch returns its error and no result.
FetchFailed(fs, fetchErr) ==
    [files |-> fs, result |-> <<>>, err |-> fetchErr]

\* A failed save that fails the scan.
SaveDoneFatal(sv, res) ==
    IF sv.err # nil
    THEN [files |-> sv.files, result |-> <<>>, err |-> sv.err, warning |-> <<>>]
    ELSE [files |-> sv.files, result |-> <<res>>, err |-> nil, warning |-> <<>>]

\* Scan, lines 244-254: a failed save is a warning, the result is returned.
SaveDone(sv, res) ==
    [files |-> sv.files, result |-> <<res>>, err |-> nil,
     warning |-> IF sv.err # nil THEN <<sv.err>> ELSE <<>>]

\* Scanner.Scan as a function of the file system and of what its environment
\* does: t0 is time.Now() at entry, tLoad the time.Now() of Cache.Load, tSave
\* the time.Now() of Cache.Save, fetchRet what the fetcher returns, outcome what
\* the write does.  events lists the cache reads, fetches and cache writes in
\* the order they happen.
ScanRun(fs, org, refresh, t0, tLoad, fetchRet, tSave, outcome) ==
    LET reads == ReadsCache(refresh)
        ld == IF reads THEN LoadWithTime(fs, org, tLoad)
              ELSE [data |-> ZeroCache, err |-> "not loaded"]
        ev1 == IF reads THEN <<"read">> ELSE <<>>
    IN IF reads /\ CacheHit(ld)
       THEN [files |-> fs, result |-> <<CachedResult(org, ld.data)>>,
             err |-> nil, warning |-> <<>>, events |-> ev1,
             loadErr |-> ld.err]
       ELSE IF fetchRet.err # nil
       THEN LET r == FetchFailed(fs, fetchRet.err) IN
            [files |-> r.files, result |-> r.result, err |-> r.err,
             warning |-> <<>>, events |-> Append(ev1, "fetch"),
             loadErr |-> ld.err]
       ELSE LET sv == Save(fs, cacheData(org, fetchRet.repos, t0), tSave, outcome)
                r == SaveDone(sv, FetchedResult(org, fetchRet.repos, t0))
            IN [files |-> r.files, result |-> r.result, err |-> r.err,
                warning |-> r.warning, events |-> ev1 \o <<"fetch", "write">>,
                loadErr |-> ld.err]

(***************************************************************************)
(* patina.go: the functions over repository lists                          *)
(***************************************************************************)
\* The zero value of FreshnessSummary.
ZeroSummary == [Green |-> 0, Yellow |-> 0, Red |-> 0, Total |-> 0]

\* A summary that counts a red repository as yellow.
CountRedAsYellow(summary, f) ==
    IF f = FreshnessGreen THEN [summary EXCEPT !.Green = @ + 1]
    ELSE IF f = FreshnessYellow THEN [summary EXCEPT !.Yellow = @ + 1]
    ELSE IF f = FreshnessRed THEN [summary EXCEPT !.Yellow = @ + 1]
    ELSE summary

\* CalculateSummary, lines 271-278: the switch in the body of the loop.
Count1(summary, f) ==
    IF f = FreshnessGreen THEN [summary EXCEPT !.Green = @ + 1]
    ELSE IF f = FreshnessYellow THEN [summary EXCEPT !.Yellow = @ + 1]
    ELSE IF f = FreshnessRed THEN [summary EXCEPT !.Red = @ + 1]
    ELSE summary

\* CalculateSummary, lines 270-279: the loop from repository i on.
RECURSIVE SummaryLoop(_, _, _, _)
SummaryLoop(repos, now_, i, summary) ==
    IF i > Len(repos) THEN summary
    ELSE SummaryLoop(repos, now_, i + 1,
             Count1(summary, CalculateFreshness(repos[i].LastUpdated, now_)))

CalculateSummary(repos, now_) ==
    SummaryLoop(repos, now_, 1, [ZeroSummary EXCEPT !.Total = Len(repos)])

\* FilterByFreshness, lines 300-306: the loop from repository i on, with the
\* repositories appended so far.
RECURSIVE FilterLoop(_, _, _, _, _)
FilterLoop(repos, freshness_, now_, i, filtered) ==
    IF i > Len(repos) THEN filtered
    ELSE FilterLoop(repos, freshness_, now_, i + 1,
             IF CalculateFreshness(repos[i].LastUpdated, now_) = freshness_
             THEN Append(filtered, repos[i]) ELSE filtered)

\* A FilterByFreshness that returns the matching entries last to first.
FilterByFreshnessBackwards(repos, freshness_, now_) ==
    LET f == FilterLoop(repos, freshness_, now_, 1, <<>>)
    IN  [i \in 1..Len(f) |-> f[Len(f) + 1 - i]]

FilterByFreshness(repos, freshness_, now_) ==
    FilterLoop(repos, freshness_, now_, 1, <<>>)

\* SortByAge: sort.Slice with Before as the order.  sort.Slice promises no
\* order among entries that compare equal (its insertion sort keeps their
\* order only in lists of at most 12 entries; the short lists here stand for
\* lists of any length): what it may leave is every arrangement of the list
\* in which no entry stands before an older one.
SortByAge(repos) ==
    IF repos = <<>> THEN {<<>>}
    ELSE {q \in {[i \in 1..Len(repos) |-> repos[pi[i]]] :
                    pi \in Permutations(1..Len(repos))} :
            \A i \in 1..Len(q), j \in 1..Len(q) :
                i < j => ~(q[j].LastUpdated < q[i].LastUpdated)}

\* A descending sort that puts the oldest first.
SortByAgeDescOldestFirst(repos) == SortByAge(repos)

\* SortByAgeDesc: sort.Slice with After as the order; not stable either: no
\* entry stands before a newer one.
SortByAgeDesc(repos) ==
    IF repos = <<>> THEN {<<>>}
    ELSE {q \in {[i \in 1..Len(repos) |-> repos[pi[i]]] :
                    pi \in Permutations(1..Len(repos))} :
            \A i \in 1..Len(q), j \in 1..Len(q) :
                i < j => ~(q[j].LastUpdated > q[i].LastUpdated)}

\* A GetTopStale that does not clamp n to the length of the list.
GetTopStaleUnclamped(repos, n) ==
    IF Len(repos) = 0 THEN {[out |-> <<>>, panic |-> FALSE]}
    ELSE IF n < 0 THEN {[out |-> <<>>, panic |-> TRUE]}
    ELSE {[out |-> [i \in 1..n |-> sorted[IF i <= Len(sorted) THEN i ELSE 1]],
           panic |-> FALSE] : sorted \in SortByAge(repos)}

\* GetTopStale: nil for the empty list; else a copy is sorted, n is clamped
\* to its length and sorted[:n] returned, which panics for a negative n.
GetTopStale(repos, n) ==
    IF Len(repos) = 0 THEN {[out |-> <<>>, panic |-> FALSE]}
    ELSE IF n < 0 THEN {[out |-> <<>>, panic |-> TRUE]}
    ELSE {[out |-> SubSeq(sorted, 1, IF n > Len(sorted) THEN Len(sorted) ELSE n),
           panic |-> FALSE] : sorted \in SortByAge(repos)}

(***************************************************************************)
(* cmd/patina/list.go                                                      *)
(***************************************************************************)
\* runList as a function of the file system and of what its environment
\* does: listFreshness and listRefresh are the flags, scannerErr what
\* NewScanner returns, tNow the time.Now() after the scan, the rest as for
\* ScanRun.  events lists the construction of the scanner and the cache
\* reads, fetches and cache writes in the order they happen; listed holds
\* the lists the command may print.
ListRun(fs, org, listFreshness, listRefresh, scannerErr, t0, tLoad, fetchRet, tSave, outcome, tNow) ==
    LET parsed == IF listFreshness # "" THEN ParseFreshness(listFreshness)
                  ELSE [f |-> "", ok |-> TRUE]
    IN IF ~parsed.ok
       THEN [files |-> fs, err |-> "invalid freshness value", events |-> <<>>,
             result |-> <<>>, listed |-> {}]
       ELSE IF scannerErr # nil
       THEN [files |-> fs,
             err |-> "failed to initialize scanner: " \o scannerErr,
             events |-> <<"scanner">>, result |-> <<>>, listed |-> {}]
       ELSE LET r == ScanRun(fs, org, listRefresh, t0, tLoad, fetchRet, tSave,
                             outcome)
            IN IF r.err # nil
               THEN [files |-> r.files,
                     err |-> "failed to scan organization: " \o r.err,
                     events |-> <<"scanner">> \o r.events, result |-> <<>>,
                     listed |-> {}]
               ELSE [files |-> r.files, err |-> nil,
                     events |-> <<"scanner">> \o r.events,
                     result |-> r.result,
                     listed |->
                        SortByAge(IF parsed.f # ""
                                  THEN FilterByFreshness(
                                           r.result[1].Repositories,
                                           parsed.f, tNow)
                                  ELSE r.result[1].Repositories)]

(***************************************************************************)
(* The state machine of the scanner: one process calling Scan, Clear and   *)
(* ClearAll one after the other, while time passes and the environment may *)
(* damage files.                                                           *)
(***************************************************************************)
\* What `last` holds before any operation.  Of an operation it records the
\* inputs (org, refresh, the clock at entry and at the later reads, what the
\* fetcher returned if it was called, what the write did if there was one)
\* and what came out.
NoOp ==
    [op |-> "none", org |-> <<>>, refresh |-> FALSE,
     now |-> 0, tLater |-> 0, events |-> <<>>, loadErr |-> "not loaded",
     fetchRet |-> <<>>, outcome |-> "none", warning |-> <<>>, err |-> nil,
     result |-> <<>>, data |-> <<>>, filter |-> "", listed |-> <<>>]

\* How far the clock moves at once: one unit, or thirty days.
Deltas == {1, 30 * 24}

\* How long Scan may run before its later reads of the clock (in Cache.Load
\* and in Cache.Save): no time, or one unit.
Elapsed == {0, 1}

Init ==
    /\ clock = 0
    /\ advances = 0
    /\ files = [p \in Paths |-> NoFile]
    /\ last = NoOp
    /\ lastUpdated = 0
    /\ now = 0
    /\ freshness = ""
    /\ procs = <<>>
    /\ bytes = <<>>
    /\ args = <<>>
    /\ ret = <<>>

\* Time passes.
Tick(d) ==
    /\ advances < MaxAdvances
    /\ clock' = clock + d
    /\ advances' = advances + 1
    /\ UNCHANGED <<files, last>>
    /\ UNCHANGED <<freshVars, concVars, callVars>>

\* The environment damages the cache file of org.
Corrupt(org, f) ==
    /\ files' = [files EXCEPT ![cacheFilePath(org)] = f]
    /\ last' = [NoOp EXCEPT !.op = "Corrupt", !.org = org]
    /\ UNCHANGED <<clock, advances>>
    /\ UNCHANGED <<freshVars, concVars, callVars>>

\* A call of Scanner.Scan(org, ScanOptions{Refresh: refresh}).  The inputs
\* of the environment that the call does not consume are fixed, so that one
\* call is one step.
Scan(org, refresh, d, fetchRet, outcome) ==
    /\ advances + d <= MaxAdvances
    /\ \E r \in {ScanRun(files, org, refresh, clock, clock + d, fetchRet,
                         clock + d, outcome)} :
         LET fetched == "fetch" \in Range(r.events)
             wrote == "write" \in Range(r.events)
         IN /\ ~fetched => fetchRet.err # nil
            /\ ~wrote => outcome = "ok"
            /\ files' = r.files
            /\ last' = [NoOp EXCEPT
                          !.op = "Scan", !.org = org, !.refresh = refresh,
                          !.now = clock, !.tLater = clock + d,
                          !.events = r.events, !.loadErr = r.loadErr,
                          !.fetchRet = IF fetched THEN <<fetchRet>> ELSE <<>>,
                          !.outcome = IF wrote THEN outcome ELSE "none",
                          !.warning = r.warning,
                          !.err = r.err, !.result = r.result]
    /\ clock' = clock + d
    /\ advances' = advances + d
    /\ UNCHANGED <<freshVars, concVars, callVars>>

\* Cache.Clear(org): os.Remove of the file; a missing file is no error.
Clear(org) ==
    /\ files' = [files EXCEPT ![cacheFilePath(org)] = NoFile]
    /\ last' = [NoOp EXCEPT !.op = "Clear", !.org = org]
    /\ UNCHANGED <<clock, advances>>
    /\ UNCHANGED <<freshVars, concVars, callVars>>

\* Cache.ClearAll(): os.RemoveAll of the cache directory.
ClearAll ==
    /\ files' = [p \in Paths |->
                    IF Len(p) > Len(baseDir)
                       /\ SubSeq(p, 1, Len(baseDir)) = baseDir
                    THEN NoFile ELSE files[p]]
    /\ last' = [NoOp EXCEPT !.op = "ClearAll"]
    /\ UNCHANGED <<clock, advances>>
    /\ UNCHANGED <<freshVars, concVars, callVars>>

Next ==
    \/ \E d \in Deltas : Tick(d)
    \/ \E org \in Orgs, f \in {Garbage, Unreadable} : Corrupt(org, f)
    \/ \E org \in Orgs, refresh \in BOOLEAN, d \in Elapsed,
          fetchRet \in FetchReturns, outcome \in SaveOutcomes :
            Scan(org, refresh, d, fetchRet, outcome)
    \/ \E org \in Orgs : Clear(org)
    \/ ClearAll

Spec == Init /\ [][Next]_vars

(***************************************************************************)
(* The cache as a state machine of its own: the files are whatever earlier *)
(* runs and the environment left on disk, and LoadWithTime is called with  *)
(* any reference time.                                                     *)
(***************************************************************************)
\* fetched_at of the documents on disk: 0..MaxStamp.
Stamps == 0..MaxStamp

\* What may be on disk for org.
DiskFiles(org) ==
    {NoFile, Unreadable, Garbage}
        \cup {Marshal(cacheData(org, l, st)) : l \in FetchLists, st \in Stamps}

\* Reference times handed to LoadWithTime.
RefTimes == {0, 29 * 24, 30 * 24, 30 * 24 + 1, 31 * 24}

InitCache ==
    /\ clock = 0
    /\ advances = 0
    /\ files \in {fs \in [Paths -> UNION {DiskFiles(o) : o \in Orgs}] :
                    \A o \in Orgs : fs[cacheFilePath(o)] \in DiskFiles(o)}
    /\ last = NoOp
    /\ lastUpdated = 0
    /\ now = 0
    /\ freshness = ""
    /\ procs = <<>>
    /\ bytes = <<>>
    /\ args = <<>>
    /\ ret = <<>>

\* A call of Cache.LoadWithTime(org, t).
LoadWithTimeCall(org, t) ==
    /\ \E ld \in {LoadWithTime(files, org, t)} :
         last' = [NoOp EXCEPT !.op = "LoadWithTime", !.org = org,
                              !.now = t, !.tLater = t,
                              !.events = <<"read">>, !.loadErr = ld.err,
                              !.err = ld.err, !.data = <<ld.data>>]
    /\ UNCHANGED <<clock, advances, files>>
    /\ UNCHANGED <<freshVars, concVars, callVars>>

NextCache == \E org \in Orgs, t \in RefTimes : LoadWithTimeCall(org, t)

SpecCache == InitCache /\ [][NextCache]_vars

(***************************************************************************)
(* The cache API called by a client of the package: Save, Load, IsValid,   *)
(* Clear and ClearAll with any organization name, next to scans that read  *)
(* the cache.  The disk is empty at the start.                             *)
(***************************************************************************)
\* Repository lists handed to Save: one whose name is not valid UTF-8.
SaveLists ==
    {<<[Repo("repo3", 3) EXCEPT !.Name = InvalidUTF8]>>,
     <<Repo("repo2", 7), Repo("repo1", 0)>>}

\* FetchedAt as the caller of Save set it: the zero time, or any other.
CallerStamps == {0, 1000}

\* The organization names the client uses.
StoreOrgs == {<<"a">>} \cup TraversalOrgs

SaveInputs ==
    {[Organization |-> o, Repositories |-> l, FetchedAt |-> st] :
        o \in StoreOrgs, l \in SaveLists, st \in CallerStamps}

\* A call of Cache.Save(data): d1 passes before Save reads time.Now(), d2
\* after it.  A save that fails stores nothing of its input, and one input
\* stands for all.
SaveCall(data, d1, d2, outcome) ==
    /\ advances + d1 + d2 <= MaxAdvances
    /\ outcome # "ok" =>
            /\ d1 = 0 /\ d2 = 0
            /\ data.FetchedAt = 0
            /\ Len(data.Repositories) = 1
    /\ \E sv \in {Save(files, data, clock + d1, outcome)} :
         /\ files' = sv.files
         /\ last' = [NoOp EXCEPT !.op = "Save", !.org = data.Organization,
                                 !.now = clock, !.tLater = clock + d1 + d2,
                                 !.events = <<"write">>, !.outcome = outcome,
                                 !.err = sv.err, !.data = <<data>>]
    /\ clock' = clock + d1 + d2
    /\ advances' = advances + d1 + d2
    /\ UNCHANGED <<freshVars, concVars, callVars>>

\* A call of Cache.Load(org).
LoadCall(org) ==
    /\ \E ld \in {Load(files, org, clock)} :
         last' = [NoOp EXCEPT !.op = "Load", !.org = org,
                              !.now = clock, !.tLater = clock,
                              !.events = <<"read">>, !.loadErr = ld.err,
                              !.err = ld.err, !.data = <<ld.data>>]
    /\ UNCHANGED <<clock, advances, files>>
    /\ UNCHANGED <<freshVars, concVars, callVars>>

\* A call of Cache.IsValid(org).
IsValidCall(org) ==
    /\ last' = [NoOp EXCEPT !.op = "IsValid", !.org = org,
                            !.now = clock, !.tLater = clock,
                            !.events = <<"read">>,
                            !.data = <<IsValid(files, org, clock)>>]
    /\ UNCHANGED <<clock, advances, files>>
    /\ UNCHANGED <<freshVars, concVars, callVars>>

\* A call of Cache.IsValidWithTime(org, t).
IsValidWithTimeCall(org, t) ==
    /\ last' = [NoOp EXCEPT !.op = "IsValidWithTime", !.org = org,
                            !.now = t, !.tLater = t,
                            !.events = <<"read">>,
                            !.data = <<IsValidWithTime(files, org, t)>>]
    /\ UNCHANGED <<clock, advances, files>>
    /\ UNCHANGED <<freshVars, concVars, callVars>>

\* Reference times handed to LoadWithTime and IsValidWithTime here: 30 days
\* after the first stamp, and one unit later.
StoreTimes == {30 * 24, 30 * 24 + 1}

\* The scans here find the fetcher failing: they are served from the cache
\* or fail.
NextStore ==
    \/ \E data \in SaveInputs, d1 \in Elapsed, d2 \in Elapsed,
          outcome \in SaveOutcomes : SaveCall(data, d1, d2, outcome)
    \/ \E org \in StoreOrgs : LoadCall(org)
    \/ \E org \in StoreOrgs, t \in StoreTimes : LoadWithTimeCall(org, t)
    \/ \E org \in StoreOrgs : IsValidCall(org)
    \/ \E org \in StoreOrgs, t \in StoreTimes : IsValidWithTimeCall(org, t)
    \/ \E org \in StoreOrgs, e \in FetchErrors :
            Scan(org, FALSE, 0, [repos |-> <<>>, err |-> e], "ok")
    \/ \E org \in StoreOrgs : Clear(org)
    \/ ClearAll

SpecStore == Init /\ [][NextStore]_vars

(***************************************************************************)
(* The list command: runs of `patina list <org>` one after the other,      *)
(* while time passes.                                                      *)
(***************************************************************************)
\* Values of the --freshness flag: not given, valid, and two invalid ones.
Filters == {"", "green", "blue", "GREEN"}

\* The organization listed.
ListOrgs == {<<"a">>}

\* What NewScanner may return: a scanner, or the error of NewCache.
ScannerErrors == {nil, "no user cache directory"}

\* One run of the command.  The inputs of the environment that the run does
\* not consume are fixed.
RunList(org, listFreshness, listRefresh, scannerErr, d, fetchRet, outcome) ==
    /\ advances + d <= MaxAdvances
    /\ (listFreshness \notin {"", "green", "yellow", "red"} \/ scannerErr # nil)
            => (fetchRet.err # nil /\ outcome = "ok")
    /\ \E r \in {ListRun(files, org, listFreshness, listRefresh, scannerErr,
                         clock, clock + d, fetchRet, clock + d, outcome,
                         clock + d)} :
         LET scanned == "scanner" \in Range(r.events) /\ scannerErr = nil
             fetched == "fetch" \in Range(r.events)
             wrote == "write" \in Range(r.events)
         IN /\ "scanner" \notin Range(r.events) => scannerErr = nil
            /\ ~scanned => (~listRefresh /\ d = 0)
            /\ ~fetched => fetchRet.err # nil
            /\ ~wrote => outcome = "ok"
            /\ files' = r.files
            /\ \E l \in (IF r.listed = {} THEN {<<>>} ELSE r.listed) :
                 last' = [NoOp EXCEPT
                            !.op = "List", !.org = org,
                            !.refresh = listRefresh,
                            !.now = clock, !.tLater = clock + d,
                            !.events = r.events,
                            !.fetchRet = IF fetched THEN <<fetchRet>> ELSE <<>>,
                            !.outcome = IF wrote THEN outcome ELSE "none",
                            !.err = r.err, !.result = r.result,
                            !.filter = listFreshness, !.listed = l]
    /\ clock' = clock + d
    /\ advances' = advances + d
    /\ UNCHANGED <<freshVars, concVars, callVars>>

NextList ==
    \/ \E d \in Deltas : Tick(d)
    \/ \E org \in ListOrgs, listFreshness \in Filters, listRefresh \in BOOLEAN,
          scannerErr \in ScannerErrors, d \in Elapsed,
          fetchRet \in FetchReturns, outcome \in SaveOutcomes :
            RunList(org, listFreshness, listRefresh, scannerErr, d, fetchRet,
                    outcome)

SpecList == Init /\ [][NextList]_vars

(***************************************************************************)
(* Two processes that each run Scan(org, refresh = true) on one            *)
(* organization at the same time, with the steps of os.WriteFile apart:    *)
(* the file is opened and truncated, then the buffer is written at offset  *)
(* 0 of the process's own file descriptor.  No lock is taken anywhere.     *)
(***************************************************************************)
Procs == {1, 2}

\* The organization both processes scan.
ConcOrg == <<"a">>

\* The bytes of a marshalled document, as a sequence of pieces: the opening
\* brace with the header keys, one piece per repository, the closing brace.
Encode(f) ==
    <<[tok |-> "open", val |-> <<f.doc[1].organization, f.doc[1].fetched_at>>]>>
        \o [i \in 1..Len(f.doc[1].repositories) |->
                [tok |-> "repo", val |-> <<f.doc[1].repositories[i]>>]]
        \o <<[tok |-> "close", val |-> <<>>]>>

\* json.Unmarshal accepts the bytes only if they are one whole document.
Decodes(b) ==
    /\ Len(b) >= 2
    /\ b[1].tok = "open"
    /\ b[Len(b)].tok = "close"
    /\ \A i \in 2..(Len(b) - 1) : b[i].tok = "repo"

\* write(2) of buf at offset 0 of a file that holds old: the bytes beyond
\* the buffer stay.
WriteAt0(old, buf) ==
    IF Len(old) > Len(buf)
    THEN buf \o SubSeq(old, Len(buf) + 1, Len(old))
    ELSE buf

Idle == [pc |-> "start", repos |-> <<>>, buf |-> <<>>, wrote |-> 0,
         err |-> nil, result |-> <<>>]

\* What the cache file may hold when the two scans start: nothing, or the
\* snapshot of an earlier scan.
InitBytes ==
    {<<>>} \cup {Encode(Marshal(cacheData(ConcOrg, l, 0))) : l \in FetchLists}

InitConc ==
    /\ clock = 0
    /\ advances = 0
    /\ files = [p \in Paths |-> NoFile]
    /\ last = NoOp
    /\ lastUpdated = 0
    /\ now = 0
    /\ freshness = ""
    /\ procs = [p \in Procs |-> Idle]
    /\ bytes \in InitBytes
    /\ args = <<>>
    /\ ret = <<>>

\* Scan, lines 233-236: the fetch; its error ends the scan.
Fetch(p, fetchRet) ==
    /\ procs[p].pc = "start"
    /\ procs' = [procs EXCEPT ![p] =
                    IF fetchRet.err # nil
                    THEN [@ EXCEPT !.pc = "done", !.err = fetchRet.err]
                    ELSE [@ EXCEPT !.pc = "fetched", !.repos = fetchRet.repos]]
    /\ UNCHANGED bytes
    /\ UNCHANGED <<cacheVars, freshVars, callVars>>

\* Scan, lines 239-244, and Save up to the open of os.WriteFile: the snapshot
\* is stamped and marshalled, the file is opened with O_TRUNC.
OpenTruncate(p) ==
    /\ procs[p].pc = "fetched"
    /\ procs' = [procs EXCEPT ![p] =
                    [@ EXCEPT !.pc = "opened",
                              !.buf = Encode(Marshal(
                                  [cacheData(ConcOrg, procs[p].repos, clock)
                                      EXCEPT !.FetchedAt = clock]))]]
    /\ bytes' = <<>>
    /\ UNCHANGED <<cacheVars, freshVars, callVars>>

\* The write and close of os.WriteFile, and Scan, lines 249-254.
WriteBuffer(p) ==
    /\ procs[p].pc = "opened"
    /\ bytes' = WriteAt0(bytes, procs[p].buf)
    /\ procs' = [procs EXCEPT ![p] =
                    [@ EXCEPT !.pc = "done",
                              !.wrote = 1 + Cardinality(
                                  {q \in Procs : procs[q].wrote > 0}),
                              !.result = <<FetchedResult(
                                  ConcOrg, procs[p].repos, clock)>>]]
    /\ UNCHANGED <<cacheVars, freshVars, callVars>>

NextConc ==
    \/ \E p \in Procs, fetchRet \in FetchReturns : Fetch(p, fetchRet)
    \/ \E p \in Procs : OpenTruncate(p)
    \/ \E p \in Procs : WriteBuffer(p)

SpecConc == InitConc /\ [][NextConc]_vars

(***************************************************************************)
(* CalculateSummary as a state machine: the arguments are drawn at the     *)
(* start, one step applies the function to them.                           *)
(***************************************************************************)
\* The reference time of the calls.
CallNow == 1000 * 24

\* Ages of repositories, in hours: in the future, none, and both sides of
\* the two thresholds.
CallAges == {-1, 0, yellowThreshold, yellowThreshold + 1,
             redThreshold, redThreshold + 1}

\* Repository lists of up to MaxLen entries with these ages.
CallLists ==
    UNION {[1..n -> {Repo("repo1", CallNow - a) : a \in CallAges}] :
               n \in 0..MaxLen}

\* The list of the scenario: updated 1, 30, 90, 120, 400 and 800 days ago.
ScenarioDays == <<1, 30, 90, 120, 400, 800>>
ScenarioList ==
    [i \in 1..Len(ScenarioDays) |-> Repo("repo1", CallNow - ScenarioDays[i] * 24)]

InitSummary ==
    /\ clock = 0
    /\ advances = 0
    /\ files = [p \in Paths |-> NoFile]
    /\ last = NoOp
    /\ lastUpdated = 0
    /\ now = 0
    /\ freshness = ""
    /\ procs = <<>>
    /\ bytes = <<>>
    /\ args \in {[fn |-> "CalculateSummary", repos |-> l, now |-> CallNow] :
                    l \in CallLists \cup {ScenarioList}}
    /\ ret = <<>>

CalculateSummaryCall ==
    /\ args.fn = "CalculateSummary"
    /\ ret = <<>>
    /\ ret' = <<CalculateSummary(args.repos, args.now)>>
    /\ UNCHANGED args
    /\ UNCHANGED <<cacheVars, freshVars, concVars>>

NextSummary == CalculateSummaryCall

SpecSummary == InitSummary /\ [][NextSummary]_vars

(***************************************************************************)
(* SortByAge, SortByAgeDesc, GetTopStale and FilterByFreshness as a state  *)
(* machine: the arguments are drawn at the start, one step applies the     *)
(* function.  ret holds what the function returned and the caller's list   *)
(* as the call left it.                                                    *)
(***************************************************************************)
\* Timestamps of the repositories that are sorted: few, so that they tie.
SortStamps == {0, 1, 2}

\* Lists of up to MaxLen repositories, the i-th named "r<i>", with
\* timestamps from stamps.
NamedLists(stamps) ==
    UNION {{[i \in 1..n |-> Repo("r" \o ToString(i), f[i])] :
                f \in [1..n -> stamps]} : n \in 0..MaxLen}

\* The n handed to GetTopStale.
TopCounts == (-1)..(MaxLen + 1)

ListArgs ==
    {[fn |-> fn, repos |-> l, n |-> 0, level |-> "", now |-> CallNow] :
        fn \in {"SortByAge", "SortByAgeDesc"}, l \in NamedLists(SortStamps)}
    \cup {[fn |-> "GetTopStale", repos |-> l, n |-> n, level |-> "",
           now |-> CallNow] : l \in NamedLists(SortStamps), n \in TopCounts}
    \cup {[fn |-> "FilterByFreshness", repos |-> l, n |-> 0, level |-> f,
           now |-> CallNow] :
            l \in NamedLists({CallNow - a : a \in CallAges}),
            f \in {FreshnessGreen, FreshnessYellow, FreshnessRed}}

InitLists ==
    /\ clock = 0
    /\ advances = 0
    /\ files = [p \in Paths |-> NoFile]
    /\ last = NoOp
    /\ lastUpdated = 0
    /\ now = 0
    /\ freshness = ""
    /\ procs = <<>>
    /\ bytes = <<>>
    /\ args \in ListArgs
    /\ ret = <<>>

\* SortByAge(repos): the caller's list is sorted in place.
SortByAgeCall ==
    /\ args.fn = "SortByAge"
    /\ ret = <<>>
    /\ \E q \in SortByAge(args.repos) :
         ret' = <<[out |-> q, repos |-> q, panic |-> FALSE]>>
    /\ UNCHANGED args
    /\ UNCHANGED <<cacheVars, freshVars, concVars>>

\* SortByAgeDesc(repos): the caller's list is sorted in place.
SortByAgeDescCall ==
    /\ args.fn = "SortByAgeDesc"
    /\ ret = <<>>
    /\ \E q \in SortByAgeDesc(args.repos) :
         ret' = <<[out |-> q, repos |-> q, panic |-> FALSE]>>
    /\ UNCHANGED args
    /\ UNCHANGED <<cacheVars, freshVars, concVars>>

\* GetTopStale(repos, n): works on a copy of the caller's list.
GetTopStaleCall ==
    /\ args.fn = "GetTopStale"
    /\ ret = <<>>
    /\ \E r \in GetTopStale(args.repos, args.n) :
         ret' = <<[out |-> r.out, repos |-> args.repos, panic |-> r.panic]>>
    /\ UNCHANGED args
    /\ UNCHANGED <<cacheVars, freshVars, concVars>>

\* FilterByFreshness(repos, level, now): appends to a slice of its own.
FilterByFreshnessCall ==
    /\ args.fn = "FilterByFreshness"
    /\ ret = <<>>
    /\ ret' = <<[out |-> FilterByFreshness(args.repos, args.level, args.now),
                 repos |-> args.repos, panic |-> FALSE]>>
    /\ UNCHANGED args
    /\ UNCHANGED <<cacheVars, freshVars, concVars>>

NextLists ==
    \/ SortByAgeCall
    \/ SortByAgeDescCall
    \/ GetTopStaleCall
    \/ FilterByFreshnessCall

SpecLists == InitLists /\ [][NextLists]_vars

(***************************************************************************)
(* The classifier as a state machine: the arguments are drawn at the       *)
(* start, one step applies CalculateFreshness to them.                     *)
(***************************************************************************)
InitFresh ==
    /\ clock = 0
    /\ advances = 0
    /\ files = [p \in Paths |-> NoFile]
    /\ last = NoOp
    /\ now \in {redThreshold + MaxSkew, redThreshold + 2 * MaxSkew}
    /\ lastUpdated \in 0..(redThreshold + 3 * MaxSkew)
    /\ freshness = ""
    /\ procs = <<>>
    /\ bytes = <<>>
    /\ args = <<>>
    /\ ret = <<>>

Classify ==
    /\ freshness = ""
    /\ freshness' = CalculateFreshness(lastUpdated, now)
    /\ UNCHANGED <<lastUpdated, now>>
    /\ UNCHANGED <<cacheVars, concVars, callVars>>

NextFresh == Classify

SpecFresh == InitFresh /\ [][NextFresh]_vars

(***************************************************************************)
(* Age, Freshness.String and ParseFreshness as functions: SpecText.  A     *)
(* behaviour is one call of Age or of ParseFreshness, or a call of String  *)
(* followed by ParseFreshness on the string it returned.                   *)
(***************************************************************************)
\* Hours between lastUpdated and now: every day from one day ahead of now to
\* MaxYears + 1 years of 360 days back, at the start and in the last hour
\* of the day.
AgeHours ==
    {d * 24 + o : d \in (-1)..((MaxYears + 1) * 12 * 30), o \in {0, 23}}

\* Strings handed to ParseFreshness.
ParseStrings ==
    {"green", "yellow", "red", "", "Green", "GREEN", "Yellow", "RED",
     "blue", "green ", "greenish"}

TextArgs ==
    {[fn |-> "Age", lastUpdated |-> CallNow - h, now |-> CallNow] :
        h \in AgeHours}
    \cup {[fn |-> "ParseFreshness", s |-> s] : s \in ParseStrings}
    \cup {[fn |-> "String", f |-> f] :
            f \in {FreshnessGreen, FreshnessYellow, FreshnessRed}}

InitText ==
    /\ clock = 0
    /\ advances = 0
    /\ files = [p \in Paths |-> NoFile]
    /\ last = NoOp
    /\ lastUpdated = 0
    /\ now = 0
    /\ freshness = ""
    /\ procs = <<>>
    /\ bytes = <<>>
    /\ args \in TextArgs
    /\ ret = <<>>

\* Age(lastUpdated, now).
AgeCall ==
    /\ args.fn = "Age"
    /\ ret = <<>>
    /\ ret' = <<[out |-> Age(args.lastUpdated, args.now)]>>
    /\ UNCHANGED args
    /\ UNCHANGED <<cacheVars, freshVars, concVars>>

\* f.String().
StringCall ==
    /\ args.fn = "String"
    /\ ret = <<>>
    /\ ret' = <<[out |-> String(args.f)]>>
    /\ UNCHANGED args
    /\ UNCHANGED <<cacheVars, freshVars, concVars>>

\* ParseFreshness(s), s being the argument or the string String returned.
ParseFreshnessCall ==
    /\ \/ args.fn = "ParseFreshness" /\ ret = <<>>
       \/ args.fn = "String" /\ Len(ret) = 1
    /\ LET s == IF args.fn = "String" THEN ret[1].out ELSE args.s
       IN  ret' = Append(ret, ParseFreshness(s))
    /\ UNCHANGED args
    /\ UNCHANGED <<cacheVars, freshVars, concVars>>

NextText == AgeCall \/ StringCall \/ ParseFreshnessCall

SpecText == InitText /\ [][NextText]_vars

(***************************************************************************)
(* CalculateFreshness as time passes: SpecDrift.  A repository is          *)
(* classified again and again, either later (now moves on, lastUpdated     *)
(* stays) or in place of it a repository updated longer ago (lastUpdated   *)
(* moves back, now stays).                                                 *)
(***************************************************************************)
\* The ages looked at: within MaxSkew of zero and of the two thresholds.
DriftAges ==
    UNION {(t - MaxSkew)..(t + MaxSkew) : t \in {0, yellowThreshold, redThreshold}}

InitDrift ==
    /\ clock = 0
    /\ advances = 0
    /\ files = [p \in Paths |-> NoFile]
    /\ last = NoOp
    /\ lastUpdated = CallNow
    /\ now \in (CallNow - MaxSkew)..CallNow
    /\ freshness = CalculateFreshness(lastUpdated, now)
    /\ procs = <<>>
    /\ bytes = <<>>
    /\ args = <<>>
    /\ ret = <<>>

\* CalculateFreshness(lastUpdated, now) at a later now.
ClassifyLater ==
    /\ \E a \in DriftAges :
         /\ lastUpdated + a > now
         /\ now' = lastUpdated + a
    /\ freshness' = CalculateFreshness(lastUpdated, now')
    /\ UNCHANGED lastUpdated
    /\ UNCHANGED <<cacheVars, concVars, callVars>>

\* CalculateFreshness(lastUpdated, now) for an older lastUpdated.
ClassifyOlder ==
    /\ \E a \in DriftAges :
         /\ now - a < lastUpdated
         /\ lastUpdated' = now - a
    /\ freshness' = CalculateFreshness(lastUpdated', now)
    /\ UNCHANGED now
    /\ UNCHANGED <<cacheVars, concVars, callVars>>

NextDrift == ClassifyLater \/ ClassifyOlder

SpecDrift == InitDrift /\ [][NextDrift]_vars

(***************************************************************************)
(* Properties                                                              *)
(***************************************************************************)
\* A step that is a call of Scan.  (A call that leaves `last` as it was
\* repeats the call before it on an unchanged state and changes nothing.)
ScanStep == last' # last /\ last'.op = "Scan"

Fetched(l) == l.fetchRet # <<>>
FetchOK(l) == l.fetchRet # <<>> /\ l.fetchRet[1].err = nil
FetchErr(l) == l.fetchRet # <<>> /\ l.fetchRet[1].err # nil
Served(l) == l.result # <<>> /\ l.result[1].FromCache
Count(q, e) == Cardinality({i \in 1..Len(q) : q[i] = e})

\* The stored repository list `stored` is the list `repos`, entry by entry.
SameRepos(stored, repos) ==
    /\ Len(stored) = Len(repos)
    /\ \A i \in 1..Len(repos) :
        /\ stored[i].name = repos[i].Name
        /\ stored[i].full_name = repos[i].FullName
        /\ stored[i].last_updated = repos[i].LastUpdated
        /\ stored[i].html_url = repos[i].HTMLURL

\* File f is a snapshot of org holding exactly the list repos.
Holds(f, org, repos) ==
    /\ f.kind = "json"
    /\ f.doc[1].organization = org
    /\ SameRepos(f.doc[1].repositories, repos)

\* C1 (SpecFresh): CalculateFreshness returns one of green, yellow, red; it
\* is green iff age <= 60 days, yellow iff 60 days < age <= 180 days, red
\* iff age > 180 days, with age = now - lastUpdated in hours; so 60 days is
\* green, 60 days + 1 yellow, 180 days yellow, 180 days + 1 red and every
\* negative age green.
C1_Classification ==
    freshness # "" =>
        LET age == now - lastUpdated IN
        /\ freshness \in {"green", "yellow", "red"}
        /\ (freshness = "green" <=> age <= 60 * 24)
        /\ (freshness = "yellow" <=> (60 * 24 < age /\ age <= 180 * 24))
        /\ (freshness = "red" <=> age > 180 * 24)
        /\ (age < 0 => freshness = "green")

\* C1 witness: a repository updated exactly 180 days ago was classified yellow.
C1_Witness == freshness = "yellow" /\ now - lastUpdated = 180 * 24

\* C2 as stated: of two successive Scan(org, refresh=false) calls that lie
\* within 30 days, the second does not invoke the fetcher if the first did.
C2_AtMostOneFetch ==
    [][(/\ last.op = "Scan" /\ ~last.refresh /\ Fetched(last)
        /\ ScanStep /\ ~last'.refresh /\ last'.org = last.org
        /\ last'.tLater - last.now <= 30 * 24)
       => ~Fetched(last')]_vars

\* The time the snapshot behind a successful Scan was saved.
SnapshotTime(l) == IF Served(l) THEN l.result[1].FetchedAt ELSE l.tLater

\* C2 amended: once a Scan of org has fetched and saved its snapshot (or has
\* been served from cache), the next Scan(org, refresh=false) whose cache
\* read happens within 30 days of that snapshot's save is served from cache
\* and does not invoke the fetcher.
C2_NoFetchAfterSavedFetch ==
    [][(/\ last.op = "Scan" /\ last.err = nil
        /\ (Served(last) \/ last.outcome = "ok")
        /\ ScanStep /\ ~last'.refresh /\ last'.org = last.org
        /\ last'.tLater - SnapshotTime(last) <= 30 * 24)
       => (~Fetched(last') /\ last'.err = nil /\ Served(last'))]_vars

\* C2 witness: a Scan without refresh was served from a snapshot that is
\* exactly 30 days old.
C2_Witness ==
    /\ last.op = "Scan" /\ ~last.refresh /\ Served(last)
    /\ last.tLater - last.result[1].FetchedAt = 30 * 24

\* C3: a Scan without refresh whose cache load succeeds returns success with
\* FromCache = TRUE, the organization asked for and the repositories and
\* fetchedAt of the stored snapshot, calls no fetcher and writes no file.
C3_CacheHit ==
    [][(/\ ScanStep /\ ~last'.refresh
        /\ LoadWithTime(files, last'.org, last'.tLater).err = nil)
       => LET d == files[cacheFilePath(last'.org)].doc[1] IN
          /\ last'.err = nil
          /\ Len(last'.result) = 1
          /\ last'.result[1].FromCache
          /\ last'.result[1].Organization = last'.org
          /\ last'.result[1].FetchedAt = d.fetched_at
          /\ SameRepos(d.repositories, last'.result[1].Repositories)
          /\ ~Fetched(last')
          /\ last'.events = <<"read">>
          /\ files' = files]_vars

\* C3 witness: a Scan was served two repositories from cache.
C3_Witness ==
    /\ last.op = "Scan" /\ ~last.refresh /\ Served(last)
    /\ Len(last.result[1].Repositories) = 2

\* C4 as stated: a Scan with refresh never reads the cache, invokes the
\* fetcher exactly once and, when the fetch succeeds, returns FromCache =
\* FALSE and has overwritten the stored snapshot of org.
C4_RefreshOverwrites ==
    (last.op = "Scan" /\ last.refresh) =>
        /\ Count(last.events, "read") = 0
        /\ Count(last.events, "fetch") = 1
        /\ Fetched(last)
        /\ FetchOK(last) =>
            /\ last.err = nil
            /\ Len(last.result) = 1
            /\ ~last.result[1].FromCache
            /\ Holds(files[cacheFilePath(last.org)], last.org,
                     last.fetchRet[1].repos)

\* C4 amended: a Scan with refresh never reads the cache, invokes the fetcher
\* exactly once and, when the fetch succeeds, returns FromCache = FALSE; it
\* has overwritten the stored snapshot of org when the save succeeded too.
C4_RefreshBypassesCache ==
    (last.op = "Scan" /\ last.refresh) =>
        /\ Count(last.events, "read") = 0
        /\ Count(last.events, "fetch") = 1
        /\ Fetched(last)
        /\ FetchOK(last) =>
            /\ last.err = nil
            /\ Len(last.result) = 1
            /\ ~last.result[1].FromCache
            /\ last.outcome = "ok" =>
                Holds(files[cacheFilePath(last.org)], last.org,
                      last.fetchRet[1].repos)

\* C4 witness: a Scan with refresh fetched although a valid snapshot of org
\* was stored (it is still there: the save failed before the file was opened).
C4_Witness ==
    /\ last.op = "Scan" /\ last.refresh /\ FetchOK(last)
    /\ last.outcome = "fail_unchanged"
    /\ LoadWithTime(files, last.org, last.tLater).err = nil

\* C5: a Scan whose fetch fails returns the fetcher's error unchanged and no
\* result, and leaves every file of the cache as it was.
C5_FetchErrorPropagates ==
    [][(ScanStep /\ FetchErr(last'))
       => /\ last'.err = last'.fetchRet[1].err
          /\ last'.result = <<>>
          /\ files' = files]_vars

\* C5 witness: a Scan failed on the fetch while an expired snapshot of org
\* was stored.
C5_Witness ==
    /\ last.op = "Scan" /\ ~last.refresh /\ FetchErr(last) /\ last.err # nil
    /\ LoadWithTime(files, last.org, last.tLater).err = ErrCacheExpired

\* C6: a Scan without refresh whose cache load fails (not found, expired,
\* read or parse error) invokes the fetcher, succeeds iff the fetch succeeds
\* and returns no error but the fetcher's.
C6_LoadFailureRecovered ==
    [][(/\ ScanStep /\ ~last'.refresh
        /\ LoadWithTime(files, last'.org, last'.tLater).err # nil)
       => /\ Fetched(last')
          /\ (last'.err = nil <=> last'.fetchRet[1].err = nil)
          /\ last'.err \in {nil} \cup FetchErrors]_vars

\* C6 witness: a Scan found an expired snapshot, fetched and succeeded.
C6_Witness ==
    /\ last.op = "Scan" /\ ~last.refresh /\ last.loadErr = ErrCacheExpired
    /\ FetchOK(last) /\ last.err = nil

\* C7: a Scan whose fetch succeeded and whose save failed returns success
\* with FromCache = FALSE and exactly the fetched list, and reports the save
\* error as a warning.
C7_SaveFailureNonFatal ==
    (last.op = "Scan" /\ FetchOK(last)
        /\ last.outcome \in {"fail_unchanged", "fail_truncated"}) =>
        /\ last.err = nil
        /\ Len(last.result) = 1
        /\ ~last.result[1].FromCache
        /\ last.result[1].Organization = last.org
        /\ last.result[1].Repositories = last.fetchRet[1].repos
        /\ Len(last.warning) = 1

\* C7 witness: a Scan returned two fetched repositories although the write
\* of the cache file failed half way.
C7_Witness ==
    /\ last.op = "Scan" /\ FetchOK(last) /\ last.outcome = "fail_truncated"
    /\ last.err = nil /\ Len(last.fetchRet[1].repos) = 2

C9_NeverServesExpired ==
    (last.op = "Scan" /\ Served(last)) =>
        /\ files[cacheFilePath(last.org)].kind = "json"
        /\ files[cacheFilePath(last.org)].doc[1].fetched_at
              = last.result[1].FetchedAt
        /\ last.now - last.result[1].FetchedAt <= 30 * 24
        /\ last.tLater - last.result[1].FetchedAt <= 30 * 24

\* C9 witness: a Scan that began 30 days after the save was served from cache.
C9_Witness ==
    /\ last.op = "Scan" /\ Served(last)
    /\ last.now - last.result[1].FetchedAt = 30 * 24

\* C10 (SpecCache): LoadWithTime(org, t) fails with ErrCacheNotFound iff no
\* file exists for org, with another error than NotFound and Expired if the
\* file is unreadable or malformed, with ErrCacheExpired iff the document
\* parses and t - fetchedAt > 30 days, and otherwise succeeds and returns the
\* stored snapshot.
C10_LoadOutcome ==
    (last.op = "LoadWithTime") =>
        LET f == files[cacheFilePath(last.org)] IN
        /\ (last.err = ErrCacheNotFound <=> f.kind = "absent")
        /\ f.kind \in {"unreadable", "garbage"} =>
                last.err \notin {nil, ErrCacheNotFound, ErrCacheExpired}
        /\ (last.err = ErrCacheExpired <=>
                (f.kind = "json" /\ last.now - f.doc[1].fetched_at > 30 * 24))
        /\ (f.kind = "json" /\ last.now - f.doc[1].fetched_at <= 30 * 24) =>
                /\ last.err = nil
                /\ last.data[1].Organization = f.doc[1].organization
                /\ last.data[1].FetchedAt = f.doc[1].fetched_at
                /\ SameRepos(f.doc[1].repositories, last.data[1].Repositories)

\* C10 witness: a load exactly 30 days after the stamp succeeded.
C10_Witness ==
    /\ last.op = "LoadWithTime" /\ last.err = nil
    /\ last.now - last.data[1].FetchedAt = 30 * 24
    /\ Len(last.data[1].Repositories) = 2

\* C11 (SpecCache): the value LoadWithTime returns together with
\* ErrCacheExpired carries nothing of the stored snapshot: it is the zero
\* OrganizationCache (no organization, no repositories, no fetchedAt).
C11_StaleNotReturned ==
    (last.op = "LoadWithTime" /\ last.err = ErrCacheExpired) =>
        last.data[1] = ZeroCache

\* C12 (SpecStore): a successful Save stamps the stored snapshot with the
\* time of the save, whatever FetchedAt the caller set: the fetchedAt that a
\* Load right after the Save returns lies between the time just before and
\* the time just after the Save.
C12_SaveStampsFetchedAt ==
    (last.op = "Save" /\ last.err = nil) =>
        LET ld == Load(files, last.org, last.tLater) IN
        /\ ld.err = nil
        /\ last.now <= ld.data.FetchedAt
        /\ ld.data.FetchedAt <= last.tLater
        /\ files[cacheFilePath(last.org)].doc[1].fetched_at = ld.data.FetchedAt

\* C12 witness: a Save whose caller set FetchedAt = 1000 stored a stamp that
\* lies strictly between the times before and after the call.
C12_Witness ==
    /\ last.op = "Save" /\ last.err = nil /\ last.data[1].FetchedAt = 1000
    /\ last.now < files[cacheFilePath(last.org)].doc[1].fetched_at
    /\ files[cacheFilePath(last.org)].doc[1].fetched_at < last.tLater

\* C13 (SpecStore): a Load(org) right after a successful Save of a snapshot
\* of org succeeds and returns the organization name saved and a repository
\* list equal to the saved one: same length, same order, and name, full
\* name, last-updated and URL equal entry by entry.
C13_RoundTrip ==
    (last.op = "Save" /\ last.err = nil) =>
        LET ld == Load(files, last.org, last.tLater)
            saved == last.data[1]
        IN /\ ld.err = nil
           /\ ld.data.Organization = saved.Organization
           /\ Len(ld.data.Repositories) = Len(saved.Repositories)
           /\ \A i \in 1..Len(saved.Repositories) :
                /\ ld.data.Repositories[i].Name = saved.Repositories[i].Name
                /\ ld.data.Repositories[i].FullName
                      = saved.Repositories[i].FullName
                /\ ld.data.Repositories[i].LastUpdated
                      = saved.Repositories[i].LastUpdated
                /\ ld.data.Repositories[i].HTMLURL
                      = saved.Repositories[i].HTMLURL

\* A path directly inside the cache directory.
DirectlyInside(path) ==
    /\ Len(path) = Len(baseDir) + 1
    /\ SubSeq(path, 1, Len(baseDir)) = baseDir

\* C14 (SpecStore): whatever the organization name, the cache changes only
\* files directly inside its directory, Save, Load and Clear work on a file
\* directly inside it, and a snapshot stored for one organization name is
\* never the one loaded for another.
C14_SanitizedKey ==
    [][/\ \A p \in Paths : files'[p] # files[p] => DirectlyInside(p)
       /\ last'.op \in {"Save", "Load", "Clear"}
            => DirectlyInside(cacheFilePath(last'.org))
       /\ (last'.op = "Load" /\ last'.err = nil)
            => last'.data[1].Organization = last'.org]_vars

\* A step that stores a snapshot for organization o.
SavesFor(o) ==
    /\ last' # last
    /\ last'.org = o
    /\ last'.op = "Save" \/ (last'.op = "Scan" /\ "write" \in Range(last'.events))

\* C15 (SpecStore): Clear(org) returns no error, and changes nothing when no
\* snapshot of org exists; after Clear(org), Load(org) fails with
\* ErrCacheNotFound and IsValid(org) is false, and this stays so over every
\* step that is not a Save for org; after ClearAll() the same holds for
\* every organization.
C15_Clearing ==
    [][/\ last'.op = "Clear" =>
            /\ last'.err = nil
            /\ files[cacheFilePath(last'.org)].kind = "absent" => files' = files
            /\ Load(files', last'.org, clock').err = ErrCacheNotFound
            /\ ~IsValid(files', last'.org, clock')
       /\ last'.op = "ClearAll" =>
            \A o \in StoreOrgs :
                /\ Load(files', o, clock').err = ErrCacheNotFound
                /\ ~IsValid(files', o, clock')
       /\ \A o \in StoreOrgs :
            (/\ last.op = "Clear" /\ last.org = o
             /\ ~SavesFor(o))
                => /\ Load(files', o, clock').err = ErrCacheNotFound
                   /\ ~IsValid(files', o, clock')]_vars

\* C16 (SpecStore): Load, LoadWithTime, IsValid, IsValidWithTime and a Scan
\* served from cache leave every file as it is; a Save or Clear for one
\* organization leaves the files of every other organization as they are;
\* a stored snapshot is gone after a step only if the step is a Clear of its
\* organization or a ClearAll.
C16_ReadOnlyBetweenWrites ==
    [][/\ last'.op \in {"Load", "LoadWithTime", "IsValid", "IsValidWithTime"}
            => files' = files
       /\ (last'.op = "Scan" /\ Served(last')) => files' = files
       /\ last'.op \in {"Save", "Clear"} =>
            \A o \in StoreOrgs :
                o # last'.org =>
                    files'[cacheFilePath(o)] = files[cacheFilePath(o)]
       /\ \A o \in StoreOrgs :
            (/\ files[cacheFilePath(o)].kind = "json"
             /\ files'[cacheFilePath(o)].kind # "json")
                => \/ last'.op = "Clear" /\ last'.org = o
                   \/ last'.op = "ClearAll"]_vars

\* C17 (SpecConc): when two processes have refreshed the cache of one
\* organization concurrently and both scans have returned, the cache file
\* holds exactly the document of the process that wrote last: a whole
\* document that parses, no mixture of the two and no partial one.
C17_LastWriterWins ==
    ((\A p \in Procs : procs[p].pc = "done")
        /\ (\E p \in Procs : procs[p].wrote > 0)) =>
        /\ Decodes(bytes)
        /\ \A p \in Procs :
            (procs[p].wrote > 0 /\ \A q \in Procs : procs[q].wrote <= procs[p].wrote)
                => bytes = procs[p].buf

\* C18: a Scan reads the cache at most once, calls the fetcher at most once
\* and writes the cache at most once, in this order; it writes only after a
\* fetch that succeeded, fetches only after the cache read failed or was
\* skipped for a refresh, and does neither when it is served from cache.
C18_ReadFetchWriteOnce ==
    (last.op = "Scan") =>
        /\ last.events \in {<<"read">>, <<"read", "fetch">>,
                            <<"read", "fetch", "write">>,
                            <<"fetch">>, <<"fetch", "write">>}
        /\ "write" \in Range(last.events) => FetchOK(last)
        /\ "fetch" \in Range(last.events) =>
            \/ last.refresh /\ "read" \notin Range(last.events)
            \/ /\ ~last.refresh
               /\ last.events[1] = "read"
               /\ last.loadErr # nil
        /\ ("fetch" \in Range(last.events)) <=> Fetched(last)
        /\ Served(last) => last.events = <<"read">>

\* C18 witness: a Scan read an expired snapshot, then fetched, then wrote.
C18_Witness ==
    /\ last.op = "Scan" /\ last.loadErr = ErrCacheExpired
    /\ last.events = <<"read", "fetch", "write">>
    /\ last.outcome = "ok"

\* The number of repositories of the list that CalculateFreshness puts into
\* bucket f.
InBucket(repos, f, now_) ==
    Cardinality({i \in 1..Len(repos) :
                    CalculateFreshness(repos[i].LastUpdated, now_) = f})

\* C20 (SpecSummary): CalculateSummary(repos, now) returns Total =
\* len(repos) and Green + Yellow + Red = Total, all zero for the empty list;
\* each bucket is the number of repositories that CalculateFreshness puts
\* into it, which is the length of FilterByFreshness(repos, bucket, now);
\* the ages 1, 30, 90, 120, 400, 800 days give green 2, yellow 2, red 2,
\* total 6.
C20_Summary ==
    (args # <<>> /\ args.fn = "CalculateSummary" /\ ret # <<>>) =>
        LET s == ret[1] IN
        /\ s.Total = Len(args.repos)
        /\ s.Green + s.Yellow + s.Red = s.Total
        /\ args.repos = <<>> => s = ZeroSummary
        /\ s.Green = InBucket(args.repos, "green", args.now)
        /\ s.Yellow = InBucket(args.repos, "yellow", args.now)
        /\ s.Red = InBucket(args.repos, "red", args.now)
        /\ s.Green = Len(FilterByFreshness(args.repos, "green", args.now))
        /\ s.Yellow = Len(FilterByFreshness(args.repos, "yellow", args.now))
        /\ s.Red = Len(FilterByFreshness(args.repos, "red", args.now))
        /\ args.repos = ScenarioList =>
            s = [Green |-> 2, Yellow |-> 2, Red |-> 2, Total |-> 6]

\* C20 witness: the summary of the scenario's list has been computed.
C20_Witness ==
    /\ args # <<>> /\ args.fn = "CalculateSummary"
    /\ args.repos = ScenarioList
    /\ ret = <<[Green |-> 2, Yellow |-> 2, Red |-> 2, Total |-> 6]>>

\* C19 (SpecList): a run of the list command whose --freshness value is not
\* empty and not one of green, yellow, red returns an error before it
\* constructs a scanner, reads the cache, fetches or writes the cache, and
\* leaves every file of the cache as it was.
C19_InvalidFilterRejectedFirst ==
    [][(/\ last'.op = "List"
        /\ last'.filter \notin {"", "green", "yellow", "red"})
       => /\ last'.err = "invalid freshness value"
          /\ last'.events = <<>>
          /\ last'.result = <<>>
          /\ last'.fetchRet = <<>>
          /\ files' = files]_vars

\* C19 witness: the filter "GREEN" was rejected while a snapshot of the
\* organization was stored.
C19_Witness ==
    /\ last.op = "List" /\ last.filter = "GREEN" /\ last.err # nil
    /\ files[cacheFilePath(last.org)].kind = "json"

\* A call of function fn has returned.
Returned(fn) == args # <<>> /\ args.fn = fn /\ ret # <<>>

\* The place in list l of the repository named as r is.
PlaceIn(l, r) == CHOOSE i \in 1..Len(l) : l[i].Name = r.Name

\* q holds the entries of l, each once.
IsPermutation(q, l) ==
    /\ Len(q) = Len(l)
    /\ \A i \in 1..Len(l) : \E j \in 1..Len(q) : q[j] = l[i]

\* Entries of q with equal timestamps stand in the order they have in l.
KeepsTies(q, l) ==
    \A i \in 1..Len(q), j \in 1..Len(q) :
        (i < j /\ q[i].LastUpdated = q[j].LastUpdated)
            => PlaceIn(l, q[i]) < PlaceIn(l, q[j])

\* C21 (SpecLists): SortByAge and SortByAgeDesc are stable: repositories
\* with equal lastUpdated keep their relative input order in the sorted
\* list.
C21_StableSort ==
    (Returned("SortByAge") \/ Returned("SortByAgeDesc")) =>
        KeepsTies(ret[1].out, args.repos)

\* The list q back to front.
Reverse(q) == [i \in 1..Len(q) |-> q[Len(q) + 1 - i]]

\* No two entries of l have the same timestamp.
NoTies(l) ==
    \A i \in 1..Len(l), j \in 1..Len(l) :
        i # j => l[i].LastUpdated # l[j].LastUpdated

\* C22 (SpecLists): SortByAge leaves a permutation of its input in
\* non-decreasing lastUpdated order, SortByAgeDesc a permutation in
\* non-increasing order; when no two timestamps are equal, the results of
\* the two on the same list are reverses of each other.
C22_SortedPermutation ==
    /\ Returned("SortByAge") =>
        /\ IsPermutation(ret[1].repos, args.repos)
        /\ \A i \in 1..(Len(ret[1].repos) - 1) :
                ret[1].repos[i].LastUpdated <= ret[1].repos[i + 1].LastUpdated
        /\ NoTies(args.repos) =>
                \A d \in SortByAgeDesc(args.repos) : d = Reverse(ret[1].repos)
    /\ Returned("SortByAgeDesc") =>
        /\ IsPermutation(ret[1].repos, args.repos)
        /\ \A i \in 1..(Len(ret[1].repos) - 1) :
                ret[1].repos[i].LastUpdated >= ret[1].repos[i + 1].LastUpdated
        /\ NoTies(args.repos) =>
                \A a \in SortByAge(args.repos) : a = Reverse(ret[1].repos)

\* C22 witness: SortByAgeDesc has sorted three repositories with three
\* timestamps that were in neither order.
C22_Witness ==
    /\ Returned("SortByAgeDesc")
    /\ Len(args.repos) = 3 /\ NoTies(args.repos)
    /\ args.repos[1].LastUpdated = 1 /\ args.repos[2].LastUpdated = 0
    /\ ret[1].repos[1].Name = "r3"

\* The smaller of two numbers.
Min(a, b) == IF a < b THEN a ELSE b

\* The entries of l are in non-decreasing lastUpdated order.
Ascending(l) ==
    \A i \in 1..(Len(l) - 1) : l[i].LastUpdated <= l[i + 1].LastUpdated

\* q holds entries of l, none twice, and no entry of l left out of q is
\* older than an entry of q.
OldestOf(q, l) ==
    /\ \A i \in 1..Len(q) : \E j \in 1..Len(l) : l[j] = q[i]
    /\ \A i \in 1..Len(q), j \in 1..Len(q) : i # j => q[i].Name # q[j].Name
    /\ \A j \in 1..Len(l) :
        (\A i \in 1..Len(q) : q[i] # l[j]) =>
            \A i \in 1..Len(q) : q[i].LastUpdated <= l[j].LastUpdated

\* C23 (SpecLists): for n >= 0 GetTopStale(repos, n) returns exactly
\* min(n, len(repos)) repositories, the oldest ones, oldest first, and
\* leaves the caller's list as it was; n above the length gives the whole
\* list sorted, n = 0 or an empty list gives the empty list.
C23_TopStale ==
    (Returned("GetTopStale") /\ args.n >= 0) =>
        /\ ~ret[1].panic
        /\ Len(ret[1].out) = Min(args.n, Len(args.repos))
        /\ Ascending(ret[1].out)
        /\ OldestOf(ret[1].out, args.repos)
        /\ ret[1].repos = args.repos
        /\ args.n > Len(args.repos) => ret[1].out \in SortByAge(args.repos)
        /\ (args.n = 0 \/ args.repos = <<>>) => ret[1].out = <<>>

\* C23 witness: the two oldest of three repositories, given newest first,
\* have been returned oldest first.
C23_Witness ==
    /\ Returned("GetTopStale")
    /\ args.n = 2 /\ Len(args.repos) = 3
    /\ args.repos[1].LastUpdated = 2 /\ args.repos[2].LastUpdated = 1
    /\ args.repos[3].LastUpdated = 0
    /\ ret[1].out = <<args.repos[3], args.repos[2]>>

\* C23 witness of the clamp: more repositories asked for than there are.
C23_WitnessAll ==
    /\ Returned("GetTopStale")
    /\ args.n > Len(args.repos) /\ Len(args.repos) = 2
    /\ Len(ret[1].out) = 2

\* The repository r has the freshness level at now_.
Matches(r, level, now_) == CalculateFreshness(r.LastUpdated, now_) = level

\* C24 (SpecLists): FilterByFreshness(repos, level, now) returns exactly the
\* repositories whose CalculateFreshness equals level, each once and in
\* their input order, leaves repos as it was, and returns the empty list
\* for an empty input or when nothing matches.
C24_Filter ==
    Returned("FilterByFreshness") =>
        /\ \A i \in 1..Len(args.repos) :
             Count(ret[1].out, args.repos[i]) =
                IF Matches(args.repos[i], args.level, args.now) THEN 1 ELSE 0
        /\ \A k \in 1..Len(ret[1].out) :
             \E i \in 1..Len(args.repos) : args.repos[i] = ret[1].out[k]
        /\ \A k, m \in 1..Len(ret[1].out) :
             k < m => PlaceIn(args.repos, ret[1].out[k])
                        < PlaceIn(args.repos, ret[1].out[m])
        /\ ret[1].repos = args.repos
        /\ (\A i \in 1..Len(args.repos) :
                ~Matches(args.repos[i], args.level, args.now))
             => ret[1].out = <<>>

\* C24 witness: of three repositories the first and the last match and have
\* been returned in that order.
C24_Witness ==
    /\ Returned("FilterByFreshness")
    /\ Len(args.repos) = 3
    /\ ret[1].out = <<args.repos[1], args.repos[3]>>
    /\ args.repos[1].LastUpdated # args.repos[3].LastUpdated

\* C24 witness of the empty result: repositories were given, none matches.
C24_WitnessNone ==
    /\ Returned("FilterByFreshness")
    /\ Len(args.repos) = 2
    /\ ret[1].out = <<>>

\* A count with its unit, as the rules word it: singular for one, plural
\* for every other count.
Counted(n, unit) ==
    IF n = 1 THEN "1 " \o unit ELSE ToString(n) \o " " \o unit \o "s"

\* Whole days between the arguments of Age: floor(hours / 24).
Days == (args.now - args.lastUpdated) \div 24

\* C25 (SpecText): Age follows the 30-day-month rules with days =
\* floor(hours/24): "today" below one day, "1 day ago" for one, "N days ago"
\* for 2..29; from 30 days on months = days / 30 gives "N month(s) ago"
\* while months < 12; from 12 months on years = months / 12 and
\* remainingMonths = months % 12 give "N year(s) ago" when no month remains
\* and "N year(s), M month(s) ago" otherwise; a count of 1 is singular and
\* every other count plural.
C25_AgeRules ==
    Returned("Age") =>
        LET months == Days \div 30
            years == months \div 12
            remainingMonths == months % 12
        IN  /\ Days < 1 => ret[1].out = "today"
            /\ Days = 1 => ret[1].out = "1 day ago"
            /\ Days \in 2..29 => ret[1].out = ToString(Days) \o " days ago"
            /\ (Days >= 30 /\ months < 12) =>
                    ret[1].out = Counted(months, "month") \o " ago"
            /\ (months >= 12 /\ remainingMonths = 0) =>
                    ret[1].out = Counted(years, "year") \o " ago"
            /\ (months >= 12 /\ remainingMonths # 0) =>
                    ret[1].out = Counted(years, "year") \o ", "
                            \o Counted(remainingMonths, "month") \o " ago"

\* C25 witness: an age with one year and several remaining months.
C25_Witness ==
    /\ Returned("Age")
    /\ Days = 449
    /\ ret[1].out = "1 year, 2 months ago"

\* C25 witnesses of the other rows of the table.
C25_WitnessToday == Returned("Age") /\ Days = 0 /\ ret[1].out = "today"
C25_WitnessDays == Returned("Age") /\ Days = 29 /\ ret[1].out = "29 days ago"
C25_WitnessMonth == Returned("Age") /\ Days = 59 /\ ret[1].out = "1 month ago"
C25_WitnessYears == Returned("Age") /\ Days = 720 /\ ret[1].out = "2 years ago"

\* C26 as stated (SpecText): 400 days before now give "1 year, 1 month
\* ago", 800 days before now give "2 years ago".
C26_FixedAges ==
    Returned("Age") =>
        /\ args.now - args.lastUpdated = 400 * 24 =>
                ret[1].out = "1 year, 1 month ago"
        /\ args.now - args.lastUpdated = 800 * 24 =>
                ret[1].out = "2 years ago"

\* C26 amended (SpecText): 400 days before now give "1 year, 1 month ago",
\* 800 days before now give "2 years, 2 months ago".
C26_FixedAgesAmended ==
    Returned("Age") =>
        /\ args.now - args.lastUpdated = 400 * 24 =>
                ret[1].out = "1 year, 1 month ago"
        /\ args.now - args.lastUpdated = 800 * 24 =>
                ret[1].out = "2 years, 2 months ago"

\* C26 witness: Age has returned for a repository updated exactly 800 days
\* before now.
C26_Witness ==
    /\ Returned("Age")
    /\ args.now - args.lastUpdated = 800 * 24

\* C26 witness of the 400-day case.
C26_Witness400 ==
    /\ Returned("Age")
    /\ args.now - args.lastUpdated = 400 * 24

\* C27 (SpecText): ParseFreshness(f.String()) = (f, true) for every valid
\* Freshness f; for every string other than exactly "green", "yellow" or
\* "red", the empty string and other casings among them, ParseFreshness
\* returns ok = false.
C27_ParseRoundTrip ==
    /\ (args.fn = "String" /\ Len(ret) = 2) =>
            (ret[2].f = args.f /\ ret[2].ok)
    /\ (Returned("ParseFreshness") /\ args.s \notin {"green", "yellow", "red"})
            => ~ret[1].ok

\* C27 witness: the string of yellow has been parsed back.
C27_Witness ==
    /\ args.fn = "String" /\ args.f = FreshnessYellow
    /\ Len(ret) = 2 /\ ret[2].ok

\* C27 witness of a rejected string: another casing.
C27_WitnessRejected ==
    /\ Returned("ParseFreshness") /\ args.s = "GREEN"
    /\ ~ret[1].ok

\* C28: the fetch time reported by a fetching Scan equals the fetchedAt of
\* the snapshot this Scan persisted, so a Scan of the same organization
\* right after it, served from cache, reports the same FetchedAt.
C28_ReportedIsPersisted ==
    (last.op = "Scan" /\ FetchOK(last) /\ last.outcome = "ok") =>
        LET f == files[cacheFilePath(last.org)]
            following == ScanRun(files, last.org, FALSE, last.tLater,
                                 last.tLater,
                                 [repos |-> <<>>, err |-> "unused"],
                                 last.tLater, "ok")
        IN  /\ f.kind = "json"
            /\ f.doc[1].fetched_at = last.result[1].FetchedAt
            /\ Served(following)
            /\ following.result[1].FetchedAt = last.result[1].FetchedAt

\* The levels in the order of degrading: green, yellow, red.
Rank(f) ==
    IF f = FreshnessGreen THEN 0 ELSE IF f = FreshnessYellow THEN 1
    ELSE IF f = FreshnessRed THEN 2 ELSE 3

\* C29 (SpecDrift): freshness only degrades with time: with lastUpdated
\* fixed and now advancing, and with now fixed and lastUpdated older, the
\* result of CalculateFreshness stays or moves from green towards red,
\* never back.
C29_OnlyDegrades ==
    [][(\/ lastUpdated' = lastUpdated /\ now' > now
        \/ now' = now /\ lastUpdated' < lastUpdated)
       => /\ freshness' = CalculateFreshness(lastUpdated', now')
          /\ Rank(freshness') \in 0..2
          /\ Rank(freshness') >= Rank(freshness)]_vars

\* C29 witness: a repository that was classified at an age of at most zero
\* has become red, one hour past the threshold.
C29_Witness ==
    /\ args = <<>> /\ last = NoOp
    /\ freshness = FreshnessRed
    /\ now - lastUpdated = redThreshold + 1

\* C29 witness of the step in between: yellow, one hour past its threshold.
C29_WitnessYellow ==
    /\ args = <<>> /\ last = NoOp
    /\ freshness = FreshnessYellow
    /\ now - lastUpdated = yellowThreshold + 1
    /\ lastUpdated < CallNow

====
